---------------------------- MODULE Spec2Model ----------------------------
(***************************************************************************)
(* The typed-value bridge of core/src/pixel_bender.rs: from_avm2_value     *)
(* (AVM2 Value -> PixelBenderType) and as_avm2_value (PixelBenderType ->   *)
(* AVM2 Value), with the numeric conversions they perform modelled bit by  *)
(* bit.                                                                    *)
(*                                                                         *)
(* A float (f32 or f64) is a record [c, s, bits, e]:                       *)
(*   c = "nan" | "inf" | "fin", s = sign bit,                              *)
(*   bits = the significand, most significant bit first, beginning and     *)
(*          ending with 1 (<<>> for zero),                                 *)
(*   e = the binary exponent of bits[1]                                    *)
(* so that a finite non-zero float is (-1)^s * 1.b2b3... * 2^e.  The       *)
(* representation is canonical: two floats are the same bit pattern iff    *)
(* the records are equal.                                                  *)
(***************************************************************************)
EXTENDS Integers, Sequences, FiniteSets, TLC

(***************************************************************************)
(* Bounds of the model                                                     *)
(***************************************************************************)
\* longest array handed to from_avm2_value (one more than the 4x4 arity)
MaxArrayLen == 17

(***************************************************************************)
(* Number formats                                                          *)
(***************************************************************************)
\* significand bits of an f32 (the target of `as f32`)
F32_MANTISSA_DIGITS == 24
\* smallest exponent of a normal f32
F32_MIN_EXP == -126
\* largest exponent of a finite f32
F32_MAX_EXP == 127
\* 2^16, the modulus of `as i16`
I16_MODULUS == 65536
\* i32::MAX
I32_MAX == 2147483647
I32_MIN == -I32_MAX - 1

RECURSIVE Pow2(_)
Pow2(k) == IF k = 0 THEN 1 ELSE 2 * Pow2(k - 1)

NaN == [c |-> "nan", s |-> 0, bits |-> <<>>, e |-> 0]
Inf(sign) == [c |-> "inf", s |-> sign, bits |-> <<>>, e |-> 0]
Zero(sign) == [c |-> "fin", s |-> sign, bits |-> <<>>, e |-> 0]

IsZero(f) == f.c = "fin" /\ f.bits = <<>>

RECURSIVE StripTrail(_)
StripTrail(b) ==
    IF b = <<>> THEN <<>>
    ELSE IF b[Len(b)] = 1 THEN b
    ELSE StripTrail(SubSeq(b, 1, Len(b) - 1))

\* the finite float (-1)^sign * b[1].b[2]... * 2^ex, b[1] = 1 unless b is all zero
Fin(sign, b, ex) ==
    LET t == StripTrail(b)
    IN IF t = <<>> THEN Zero(sign)
       ELSE [c |-> "fin", s |-> sign, bits |-> t, e |-> ex]

\* b + 1 as a bit string of the same width; carry is set when it overflows
RECURSIVE Inc(_)
Inc(b) ==
    IF b = <<>> THEN [carry |-> TRUE, bits |-> <<>>]
    ELSE IF b[Len(b)] = 0
         THEN [carry |-> FALSE, bits |-> SubSeq(b, 1, Len(b) - 1) \o <<1>>]
         ELSE LET r == Inc(SubSeq(b, 1, Len(b) - 1))
              IN [carry |-> r.carry, bits |-> r.bits \o <<0>>]

\* the binary digits of a natural number, most significant first
RECURSIVE NatBits(_)
NatBits(m) == IF m = 0 THEN <<>> ELSE NatBits(m \div 2) \o <<m % 2>>

(***************************************************************************)
(* `x as f32` for an f64 x: round to nearest, ties to even, at the         *)
(* precision the f32 format has at x's exponent; overflow gives infinity,  *)
(* underflow gives a subnormal or a signed zero.                           *)
(***************************************************************************)
F64ToF32(d) ==
    IF d.c # "fin" \/ d.bits = <<>> THEN d
    ELSE
      LET p == IF d.e >= F32_MIN_EXP THEN F32_MANTISSA_DIGITS
               ELSE F32_MANTISSA_DIGITS - (F32_MIN_EXP - d.e)
          n == Len(d.bits)
      IN IF d.e > F32_MAX_EXP THEN Inf(d.s)
         ELSE IF n <= p THEN d
         ELSE IF p < 0 THEN Zero(d.s)
         ELSE
           LET kept == SubSeq(d.bits, 1, p)
               guard == d.bits[p + 1]
               sticky == \E i \in (p + 2)..n : d.bits[i] = 1
               lsb == IF p = 0 THEN 0 ELSE d.bits[p]
               up == guard = 1 /\ (sticky \/ lsb = 1)
               r == Inc(kept)
           IN IF ~up THEN Fin(d.s, kept, d.e)
              ELSE IF r.carry
                   THEN (IF d.e + 1 > F32_MAX_EXP THEN Inf(d.s)
                         ELSE Fin(d.s, <<1>>, d.e + 1))
                   ELSE Fin(d.s, r.bits, d.e)

\* `f as f64` for an f32 f (From<f32> for Value widens): every f32 is an f64
F32ToF64(f) == f

\* `i as f64` for an i32 i: exact
I32ToF64(i) ==
    IF i = 0 THEN Zero(0)
    ELSE IF i = I32_MIN THEN Fin(1, <<1>>, 31)
    ELSE LET m == IF i < 0 THEN -i ELSE i
             b == NatBits(m)
         IN Fin(IF i < 0 THEN 1 ELSE 0, b, Len(b) - 1)

\* f32::fract(f) == 0.0: false for NaN and the infinities (inf - inf is NaN)
FractIsZero(f) ==
    /\ f.c = "fin"
    /\ (f.bits = <<>> \/ f.e - Len(f.bits) + 1 >= 0)

\* bit k (weight 2^k) of the integer part of |d|
IntBit(d, k) ==
    LET i == d.e - k + 1
    IN IF i >= 1 /\ i <= Len(d.bits) THEN d.bits[i] ELSE 0

RECURSIVE LowBits(_, _)
\* the integer part of |d| modulo 2^n
LowBits(d, n) ==
    IF n = 0 THEN 0 ELSE LowBits(d, n - 1) + IntBit(d, n - 1) * Pow2(n - 1)

(***************************************************************************)
(* ecma_conversions::f64_to_wrapping_i32 (ECMAScript ToInt32): NaN and the *)
(* infinities give 0; otherwise truncate toward zero and reduce modulo     *)
(* 2^32 into [-2^31, 2^31 - 1].                                            *)
(***************************************************************************)
f64_to_wrapping_i32(d) ==
    IF d.c # "fin" THEN 0
    ELSE
      LET low == LowBits(d, 31)
          top == IntBit(d, 31)
      IN IF d.s = 0
         THEN (IF top = 0 THEN low ELSE low + I32_MIN)
         ELSE (IF top = 0 THEN -low
               ELSE IF low = 0 THEN I32_MIN
               ELSE (I32_MAX - low) + 1)

\* a saturating narrowing in place of the wrapping one
I32ToI16_Saturating(i) ==
    IF i > 32767 THEN 32767 ELSE IF i < -32768 THEN -32768 ELSE i

\* `i as i16` for an i32 i: keep the low 16 bits, two's complement
I32ToI16(i) ==
    LET w == i % I16_MODULUS
    IN IF w >= I16_MODULUS \div 2 THEN w - I16_MODULUS ELSE w

\* `i as i32` for an i16 i (From<i16> for Value): sign extension, exact
I16ToI32(i) == i

(***************************************************************************)
(* Text.  An AVM2 string (AvmString) is a sequence of UTF-16 code units,   *)
(* any sequence at all; a Rust String is a sequence of Unicode scalar      *)
(* values (no surrogate code points).                                      *)
(***************************************************************************)
IsHighSurrogate(u) == u >= 55296 /\ u <= 56319
IsLowSurrogate(u) == u >= 56320 /\ u <= 57343

RECURSIVE to_string(_)
\* AvmString::to_string(): UTF-16 decoded into a String, a surrogate pair
\* into its scalar value, an unpaired surrogate into U+FFFD
to_string(w) ==
    IF w = <<>> THEN <<>>
    ELSE IF IsHighSurrogate(w[1]) /\ Len(w) >= 2 /\ IsLowSurrogate(w[2])
         THEN <<65536 + (w[1] - 55296) * 1024 + (w[2] - 56320)>>
                \o to_string(SubSeq(w, 3, Len(w)))
         ELSE IF IsHighSurrogate(w[1]) \/ IsLowSurrogate(w[1])
              THEN <<65533>> \o to_string(Tail(w))
              ELSE <<w[1]>> \o to_string(Tail(w))

RECURSIVE new_utf8(_)
\* AvmString::new_utf8(gc, string): a String encoded as UTF-16, a scalar
\* value beyond the basic plane as a surrogate pair
new_utf8(str) ==
    IF str = <<>> THEN <<>>
    ELSE IF str[1] >= 65536
         THEN << 55296 + ((str[1] - 65536) \div 1024),
                 56320 + ((str[1] - 65536) % 1024) >> \o new_utf8(Tail(str))
         ELSE <<str[1]>> \o new_utf8(Tail(str))

\* the code units of "hello", "1.5", U+1F600 (a surrogate pair), U+FFFD,
\* "h" followed by an unpaired high surrogate, an unpaired low surrogate
\* followed by "i"
TextHello == <<104, 101, 108, 108, 111>>
TextOnePointFive == <<49, 46, 53>>
TextPair == <<55357, 56832>>
TextReplacement == <<65533>>
TextLoneHigh == <<104, 55357>>
TextLoneLow == <<56832, 105>>

(***************************************************************************)
(* AVM2 values.  An array's storage is a sequence whose entries are values *)
(* or Hole (ArrayStorage keeps Option<Value>; iter() yields None for a     *)
(* hole).  VObject is an object without array storage; `throws` says       *)
(* whether its primitive conversion raises an AVM2 error.                  *)
(***************************************************************************)
VString(str) == [t |-> "String", s |-> str]
VNumber(d) == [t |-> "Number", n |-> d]
VInteger(int) == [t |-> "Integer", i |-> int]
VBool(b) == [t |-> "Bool", b |-> b]
VUndefined == [t |-> "Undefined"]
VNull == [t |-> "Null"]
VObject(th) == [t |-> "Object", throws |-> th]
VArray(elems) == [t |-> "Array", a |-> elems]
Hole == [t |-> "Hole"]
NoValue == [t |-> "None"]

(***************************************************************************)
(* PixelBenderTypeOpcode and PixelBenderType.  A numeric tag carries its   *)
(* payload in v, in stored order; TString carries its text in s.           *)
(***************************************************************************)
FloatKinds == {"TFloat", "TFloat2", "TFloat3", "TFloat4",
               "TFloat2x2", "TFloat3x3", "TFloat4x4"}
IntKinds == {"TInt", "TInt2", "TInt3", "TInt4"}
Kinds == FloatKinds \cup IntKinds \cup {"TString"}
VectorKinds == {"TFloat2", "TFloat3", "TFloat4", "TInt2", "TInt3", "TInt4"}
MatrixKinds == {"TFloat2x2", "TFloat3x3", "TFloat4x4"}

\* the number of elements a variant of PixelBenderType stores
Arity(kind) ==
    CASE kind \in {"TFloat", "TInt"} -> 1
      [] kind \in {"TFloat2", "TInt2"} -> 2
      [] kind \in {"TFloat3", "TInt3"} -> 3
      [] kind \in {"TFloat4", "TInt4", "TFloat2x2"} -> 4
      [] kind = "TFloat3x3" -> 9
      [] kind = "TFloat4x4" -> 16
      [] OTHER -> 0

Tag(kind, payload) == [k |-> kind, v |-> payload, s |-> <<>>]
TStringTag(str) == [k |-> "TString", v |-> <<>>, s |-> str]
NoTag == [k |-> "None", v |-> <<>>, s |-> <<>>]

(***************************************************************************)
(* Outcomes of a call: a returned Ok (with a tag or a value), a returned   *)
(* Err, or a panic that unwinds the caller.                                *)
(***************************************************************************)
Ok(tag) == [r |-> "Ok", tag |-> tag, val |-> NoValue, msg |-> ""]
OkValue(v) == [r |-> "Ok", tag |-> NoTag, val |-> v, msg |-> ""]
Err(e) == [r |-> "Err", tag |-> NoTag, val |-> NoValue, msg |-> e]
Panic(m) == [r |-> "Panic", tag |-> NoTag, val |-> NoValue, msg |-> m]
NoResult == [r |-> "None", tag |-> NoTag, val |-> NoValue, msg |-> ""]

(***************************************************************************)
(* Value::coerce_to_number and Value::coerce_to_i32: the host's numeric    *)
(* coercions.  A primitive always converts; an object runs its valueOf /   *)
(* toString, which may raise.  Texts are converted by the table below.     *)
(***************************************************************************)
string_to_f64(str) ==
    CASE str = <<>> -> Zero(0)
      [] str = TextOnePointFive -> Fin(0, <<1, 1>>, 0)
      [] OTHER -> NaN

coerce_to_number(v) ==
    CASE v.t = "Number" -> [ok |-> TRUE, n |-> v.n]
      [] v.t = "Integer" -> [ok |-> TRUE, n |-> I32ToF64(v.i)]
      [] v.t = "String" -> [ok |-> TRUE, n |-> string_to_f64(v.s)]
      [] v.t = "Bool" -> [ok |-> TRUE, n |-> IF v.b THEN I32ToF64(1) ELSE Zero(0)]
      [] v.t = "Null" -> [ok |-> TRUE, n |-> Zero(0)]
      [] v.t = "Undefined" -> [ok |-> TRUE, n |-> NaN]
      [] v.t = "Object" -> [ok |-> ~v.throws, n |-> NaN]

coerce_to_i32(v) ==
    IF v.t = "Integer" THEN [ok |-> TRUE, i |-> v.i]
    ELSE LET c == coerce_to_number(v)
         IN [ok |-> c.ok, i |-> f64_to_wrapping_i32(c.n)]

(***************************************************************************)
(* from_avm2_value                                                         *)
(***************************************************************************)
is_float_NoMatrices(kind) == kind \in {"TFloat", "TFloat2", "TFloat3", "TFloat4"}

is_float(kind) == kind \in FloatKinds

\* the closure mapped over array.iter(): `val.expect("Array with hole")`,
\* then the coercion `.unwrap()`ed, then the narrowing cast
MapElement(val, isf) ==
    IF val = Hole THEN Panic("Array with hole")
    ELSE IF isf
         THEN LET c == coerce_to_number(val)
              IN IF ~c.ok THEN Panic("unwrap on Err")
                 ELSE [r |-> "Ok", x |-> F64ToF32(c.n)]
         ELSE LET c == coerce_to_i32(val)
              IN IF ~c.ok THEN Panic("unwrap on Err")
                 ELSE [r |-> "Ok", x |-> I32ToI16(c.i)]

RECURSIVE Pull_Reversed(_, _, _, _, _)
\* the elements assembled last to first
Pull_Reversed(a, isf, n, i, acc) ==
    IF i > n THEN [r |-> "Ok", xs |-> acc]
    ELSE IF i > Len(a) THEN Panic("unwrap on None")
    ELSE LET m == MapElement(a[i], isf)
         IN IF m.r # "Ok" THEN m
            ELSE Pull_Reversed(a, isf, n, i + 1, <<m.x>> \o acc)

RECURSIVE Pull(_, _, _, _, _)
\* `vals.next().unwrap()` evaluated n times, left to right, on the lazy
\* iterator: elements past the n-th are never looked at
Pull(a, isf, n, i, acc) ==
    IF i > n THEN [r |-> "Ok", xs |-> acc]
    ELSE IF i > Len(a) THEN Panic("unwrap on None")
    ELSE LET m == MapElement(a[i], isf)
         IN IF m.r # "Ok" THEN m
            ELSE Pull(a, isf, n, i + 1, Append(acc, m.x))

\* `vals.collect::<Vec<_>>().try_into().unwrap()` into [f32; n]: every
\* element is mapped, then the length must be n
CollectArray(a, isf, n) ==
    LET all == Pull(a, isf, Len(a), 1, <<>>)
    IN IF all.r # "Ok" THEN all
       ELSE IF Len(all.xs) # n
            THEN Panic("unwrap on Err")
            ELSE all

from_avm2_value(value, kind) ==
    CASE value.t = "String" -> Ok(TStringTag(to_string(value.s)))
      [] value.t = "Number" -> Ok(Tag("TFloat", <<F64ToF32(value.n)>>))
      [] value.t = "Integer" -> Ok(Tag("TInt", <<I32ToI16(value.i)>>))
      [] value.t = "Array" ->
           IF is_float(kind)
           THEN LET got == IF kind \in MatrixKinds
                           THEN CollectArray(value.a, TRUE, Arity(kind))
                           ELSE Pull(value.a, TRUE, Arity(kind), 1, <<>>)
                IN IF got.r = "Ok" THEN Ok(Tag(kind, got.xs)) ELSE got
           ELSE IF kind \in IntKinds
                THEN LET got == Pull(value.a, FALSE, Arity(kind), 1, <<>>)
                     IN IF got.r = "Ok" THEN Ok(Tag(kind, got.xs)) ELSE got
                ELSE Panic("Unexpected int kind")
      [] value.t = "Object" -> Panic("Unexpected object")
      [] OTHER -> Panic("Unexpected value")

(***************************************************************************)
(* as_avm2_value                                                           *)
(***************************************************************************)
\* no normalisation: every float stays a Number
cv_NoNormalize(f) == VNumber(F32ToF64(f))

\* every float converted to an integer, fraction or not
cv_Truncating(f) == VInteger(f64_to_wrapping_i32(F32ToF64(f)))

\* Flash appears to use a uint/int if the float has no fractional part
cv(f) ==
    IF FractIsZero(f)
    THEN VInteger(f64_to_wrapping_i32(F32ToF64(f)))
    ELSE VNumber(F32ToF64(f))

\* `(*i).into()` for an i16 i: Value::Integer
IntoInteger(i) == VInteger(I16ToI32(i))

\* the stored floats emitted last to first
EncodeFloats_Reversed(v) == [i \in 1..Len(v) |-> cv(v[Len(v) + 1 - i])]

\* vec![cv(f1), ..] / floats.iter().map(cv).collect(): one value per stored
\* float, in stored order
EncodeFloats(v) == [i \in 1..Len(v) |-> cv(v[i])]

\* vec![(*i1).into(), ..]: one Integer per stored i16, in stored order
EncodeInts(v) == [i \in 1..Len(v) |-> IntoInteger(v[i])]

\* ArrayStorage::from_args(&vals): a dense storage, no holes
from_args(vals) == VArray(vals)

\* the flag applied to TString as well: without it the text is wrapped in
\* a one-element array
as_avm2_value_WrapsString(self, tint_as_int) ==
    CASE self.k = "TString" ->
           IF tint_as_int THEN OkValue(VString(new_utf8(self.s)))
           ELSE OkValue(from_args(<<VString(new_utf8(self.s))>>))
      [] self.k = "TInt" ->
           IF tint_as_int THEN OkValue(IntoInteger(self.v[1]))
           ELSE OkValue(from_args(<<IntoInteger(self.v[1])>>))
      [] self.k \in FloatKinds ->
           OkValue(from_args([i \in 1..Len(self.v) |-> cv(self.v[i])]))
      [] self.k \in {"TInt2", "TInt3", "TInt4"} ->
           OkValue(from_args([i \in 1..Len(self.v) |-> IntoInteger(self.v[i])]))

\* the flag applied to TFloat as well: a bare scalar float is returned
as_avm2_value_FlagOnFloat(self, tint_as_int) ==
    CASE self.k = "TString" -> OkValue(VString(new_utf8(self.s)))
      [] self.k = "TInt" ->
           IF tint_as_int THEN OkValue(IntoInteger(self.v[1]))
           ELSE OkValue(from_args(<<IntoInteger(self.v[1])>>))
      [] self.k = "TFloat" ->
           IF tint_as_int THEN OkValue(cv(self.v[1]))
           ELSE OkValue(from_args(<<cv(self.v[1])>>))
      [] self.k \in FloatKinds \ {"TFloat"} ->
           OkValue(from_args([i \in 1..Len(self.v) |-> cv(self.v[i])]))
      [] self.k \in {"TInt2", "TInt3", "TInt4"} ->
           OkValue(from_args([i \in 1..Len(self.v) |-> IntoInteger(self.v[i])]))

as_avm2_value(self, tint_as_int) ==
    CASE self.k = "TString" -> OkValue(VString(new_utf8(self.s)))
      [] self.k = "TInt" ->
           IF tint_as_int THEN OkValue(IntoInteger(self.v[1]))
           ELSE OkValue(from_args(<<IntoInteger(self.v[1])>>))
      [] self.k \in FloatKinds -> OkValue(from_args(EncodeFloats(self.v)))
      [] self.k \in {"TInt2", "TInt3", "TInt4"} ->
           OkValue(from_args(EncodeInts(self.v)))

(***************************************************************************)
(* The inputs: the values a script can hand to a shader parameter, and the *)
(* tags a shader run can hand back.                                        *)
(***************************************************************************)
Rep(bit, n) == [i \in 1..n |-> bit]

\* significands: a power of two; 1.5; the widest exact f32; a tie that
\* rounds down to even; a tie that rounds up to even; one that carries
\* into the next binade; the f64 nearest to 0.1 scaled
Mantissas ==
    { <<1>>, <<1, 1>>, Rep(1, 24),
      <<1>> \o Rep(0, 23) \o <<1>>,
      <<1>> \o Rep(0, 22) \o <<1, 1>>,
      Rep(1, 32),
      <<1>> \o Rep(1, 1) \o Rep(0, 2) \o <<1, 1, 0, 0, 1, 1, 0, 0, 1, 1, 0, 0>>
            \o <<1, 1, 0, 0, 1, 1, 0, 0, 1, 1, 0, 0, 1, 1, 0, 0, 1, 1, 0, 0>>
            \o <<1, 1, 0, 0, 1, 1, 0, 0, 1, 1, 0, 0, 1, 1, 0, 1>> }

Exponents == {-150, -127, -1, 0, 23, 30, 31, 32, 127}

F64Inputs ==
    { Fin(sg, m, ex) : sg \in {0, 1}, m \in Mantissas, ex \in Exponents }
      \cup { NaN, Inf(0), Inf(1), Zero(0), Zero(1), Fin(0, <<1>>, 128) }

I32Inputs == {0, 1, 5, -1, 70000, 32767, 32768, -32768, -32769, 65536,
              I32_MAX, I32_MIN}

ScalarInputs ==
    { VNumber(d) : d \in F64Inputs } \cup { VInteger(i) : i \in I32Inputs }
      \cup { VString(TextHello), VString(<<>>), VString(TextPair),
             VString(TextReplacement), VString(TextLoneHigh),
             VString(TextLoneLow), VUndefined, VNull, VBool(TRUE),
             VObject(FALSE), VObject(TRUE) }

\* 1.5, -2.5, 0.1, 1 + 2^-23 + 2^-24, -0.75, -1.5 * 2^-151: Numbers with a
\* fractional part
BaseFrac ==
    << VNumber(Fin(0, <<1, 1>>, 0)), VNumber(Fin(1, <<1, 0, 1>>, 1)),
       VNumber(Fin(0, <<1, 1, 0, 0, 1, 1, 0, 0, 1, 1, 0, 0, 1, 1, 0, 0, 1, 1, 0, 0>>
                      \o <<1, 1, 0, 0, 1, 1, 0, 0, 1, 1, 0, 0, 1, 1, 0, 0>>
                      \o <<1, 1, 0, 0, 1, 1, 0, 0, 1, 1, 0, 0, 1, 1, 0, 1>>, -4)),
       VNumber(Fin(0, <<1>> \o Rep(0, 22) \o <<1, 1>>, 0)),
       VNumber(Fin(1, <<1, 1>>, -1)), VNumber(Fin(1, <<1, 1>>, -151)) >>

\* 2^31 - 0.5, 2.5, 2^32 + 0.5: Numbers with a fractional part, two of them
\* beyond what an f32 can hold with a fraction
BaseBig ==
    << VNumber(Fin(0, Rep(1, 32), 30)), VNumber(Fin(0, <<1, 0, 1>>, 1)),
       VNumber(Fin(0, <<1>> \o Rep(0, 32) \o <<1>>, 32)) >>

BaseInts ==
    << VInteger(1), VInteger(2), VInteger(3), VInteger(70000), VInteger(-32769),
       VInteger(I32_MAX), VInteger(I32_MIN) >>

BaseMixed ==
    << VNumber(Fin(0, <<1>>, 1)), VInteger(5), VString(TextHello),
       VNumber(Fin(0, <<1>>, 32)), VNumber(NaN), VNumber(Zero(1)),
       VString(TextOnePointFive), VBool(TRUE), VObject(FALSE), VNumber(Inf(0)) >>

Bases == {BaseFrac, BaseBig, BaseInts, BaseMixed}

\* the array of length n that cycles through base, with x at index p (if any)
ArrayAt(base, n, p, x) ==
    [i \in 1..n |-> IF i = p THEN x ELSE base[((i - 1) % Len(base)) + 1]]

ArrayInputs ==
    { VArray(ArrayAt(b, n, 0, Hole)) : b \in Bases, n \in 0..MaxArrayLen }
      \cup UNION { { VArray(ArrayAt(b, n, p, x)) :
                       p \in 1..n, x \in {Hole, VObject(TRUE)} } :
                   b \in Bases, n \in 0..MaxArrayLen }

ValueInputs == ScalarInputs \cup ArrayInputs

\* f32 results of a shader: 2, 1.5, 2^31, 2^32, -0, NaN, inf, 3 * 2^31,
\* 2^32 + 512, -5, 0.1f32, 2^24 - 1, -2^31, -(2^31 + 256)
F32Cycle ==
    << Fin(0, <<1>>, 1), Fin(0, <<1, 1>>, 0), Fin(0, <<1>>, 31), Fin(0, <<1>>, 32),
       Zero(1), NaN, Inf(0), Fin(0, <<1, 1>>, 32),
       Fin(0, <<1>> \o Rep(0, 22) \o <<1>>, 32), Fin(1, <<1, 0, 1>>, 2),
       Fin(0, <<1, 1, 0, 0, 1, 1, 0, 0, 1, 1, 0, 0>>
              \o <<1, 1, 0, 0, 1, 1, 0, 0, 1, 1, 0, 1>>, -4),
       Fin(0, Rep(1, 24), 23), Fin(1, <<1>>, 31),
       Fin(1, <<1>> \o Rep(0, 22) \o <<1>>, 31) >>

\* whole-number f32 results within the i32 range: 1, -0, -2^31, 2^31 - 128
\* (the largest f32 below 2^31), -3, 0, 65536
F32IntegralCycle ==
    << Fin(0, <<1>>, 0), Zero(1), Fin(1, <<1>>, 31), Fin(0, Rep(1, 24), 30),
       Fin(1, <<1, 1>>, 1), Zero(0), Fin(0, <<1>>, 16) >>

I16Cycle == <<5, -1, 32767, -32768, 0>>

\* n consecutive entries of the cycle c, starting after offset o
Window(c, o, n) == [i \in 1..n |-> c[((o + i - 1) % Len(c)) + 1]]

TagInputs ==
    { Tag(k, Window(F32Cycle, o, Arity(k))) :
        k \in FloatKinds, o \in 0..(Len(F32Cycle) - 1) }
      \cup { Tag(k, Window(F32IntegralCycle, o, Arity(k))) :
               k \in FloatKinds, o \in 0..(Len(F32IntegralCycle) - 1) }
      \cup { Tag(k, Window(I16Cycle, o, Arity(k))) :
               k \in IntKinds, o \in 0..(Len(I16Cycle) - 1) }
      \cup { TStringTag(to_string(TextHello)), TStringTag(<<>>),
              TStringTag(to_string(TextPair)), TStringTag(to_string(TextReplacement)) }

\* the opcode of a tag's variant
KindOf(tag) == tag.k

(***************************************************************************)
(* flash.media.Camera on the linux build: the V4L2 device nodes.  Each     *)
(* index i stands for /dev/video<i>; what Device::new(i) and query_caps()  *)
(* report is fixed per index for the length of a session.                  *)
(*   open           "ok", or the io::ErrorKind of the failed open          *)
(*   caps           "ok" or "err": the outcome of query_caps()             *)
(*   video_capture  caps.capabilities contains CapFlags::VIDEO_CAPTURE     *)
(*   card           caps.card, the NUL-padded bytes of the device name     *)
(***************************************************************************)
MAX_PROBE == 10

MaxNodes == 3

\* "A"; "B" with a stale byte behind the NUL; "CCC" filling the whole
\* field; a name that is not UTF-8
CardA == <<65, 0, 0>>
CardB == <<66, 0, 88>>
CardFull == <<67, 67, 67>>
CardInvalid == <<255, 0, 0>>
Cards == {CardA, CardB, CardFull, CardInvalid}

NotFound == [open |-> "NotFound", caps |-> "err", video_capture |-> FALSE, card |-> <<>>]
PermissionDenied ==
    [open |-> "PermissionDenied", caps |-> "err", video_capture |-> FALSE, card |-> <<>>]
OtherOpenError == [open |-> "Other", caps |-> "err", video_capture |-> FALSE, card |-> <<>>]
CapsError == [open |-> "ok", caps |-> "err", video_capture |-> FALSE, card |-> <<>>]
OpenedNode(capture, bytes) ==
    [open |-> "ok", caps |-> "ok", video_capture |-> capture, card |-> bytes]

DeviceOutcomes ==
    {NotFound, PermissionDenied, OtherOpenError, CapsError, OpenedNode(FALSE, CardA)}
        \cup {OpenedNode(TRUE, c) : c \in Cards}

\* what the nodes behind the first MaxNodes all are
RestOutcomes == {NotFound, PermissionDenied, OpenedNode(TRUE, CardA)}

DeviceLayouts ==
    { [j \in 0..MAX_PROBE |-> IF j < MaxNodes THEN head[j + 1] ELSE rest] :
        head \in [1..MaxNodes -> DeviceOutcomes], rest \in RestOutcomes }

NoDevices == [j \in 0..MAX_PROBE |-> NotFound]

\* Option<T>
None == [some |-> FALSE]
Some(x) == [some |-> TRUE, v |-> x]

\* caps.card.iter().position(|&c| c == 0).unwrap_or(caps.card.len())
null_pos(card) ==
    IF \E j \in 1..Len(card) : card[j] = 0
    THEN (CHOOSE j \in 1..Len(card) :
            card[j] = 0 /\ \A m \in 1..(j - 1) : card[m] # 0) - 1
    ELSE Len(card)

\* String::from_utf8_lossy over bytes that are ASCII or 0xFF: an ASCII byte
\* is its own scalar value, 0xFF occurs in no UTF-8 sequence and becomes
\* U+FFFD
from_utf8_lossy(bytes) ==
    [j \in 1..Len(bytes) |-> IF bytes[j] < 128 THEN bytes[j] ELSE 65533]

\* String::from_utf8_lossy(&caps.card[..null_pos]).into_owned()
card_name(card) == from_utf8_lossy(SubSeq(card, 1, null_pos(card)))

\* WStr::to_utf8_lossy(): the same UTF-16 decoding as to_string
to_utf8_lossy(w) == to_string(w)

\* the text "[object Object]"
TextObject == <<91, 111, 98, 106, 101, 99, 116, 32, 79, 98, 106, 101, 99, 116, 93>>
TextNull == <<110, 117, 108, 108>>

\* Value::coerce_to_string over the argument values of a session
coerce_to_string(v) ==
    CASE v.t = "String" -> [ok |-> TRUE, s |-> v.s]
      [] v.t = "Null" -> [ok |-> TRUE, s |-> TextNull]
      [] v.t = "Object" -> [ok |-> ~v.throws, s |-> IF v.throws THEN <<>> ELSE TextObject]

names_iteration_NoBreak(dev, names) ==
    CASE dev.open = "ok" /\ dev.caps = "ok" ->
           [ names |-> IF dev.video_capture
                       THEN Append(names, new_utf8(card_name(dev.card)))
                       ELSE names,
             brk |-> FALSE ]
      [] OTHER -> [names |-> names, brk |-> FALSE]

\* one pass of the loop body of get_camera_names for the node dev: the
\* names so far, and whether the loop is left
names_iteration(dev, names) ==
    CASE dev.open = "ok" /\ dev.caps = "ok" ->
           [ names |-> IF dev.video_capture
                       THEN Append(names, new_utf8(card_name(dev.card)))
                       ELSE names,
             brk |-> FALSE ]
      [] dev.open = "ok" /\ dev.caps = "err" -> [names |-> names, brk |-> FALSE]
      [] dev.open = "NotFound" -> [names |-> names, brk |-> TRUE]
      [] dev.open = "PermissionDenied" -> [names |-> names, brk |-> FALSE]
      [] OTHER -> [names |-> names, brk |-> FALSE]

name_matches_FirstUnit(target_name_avm, card) ==
    /\ to_utf8_lossy(target_name_avm) # <<>>
    /\ card_name(card) # <<>>
    /\ to_utf8_lossy(target_name_avm)[1] = card_name(card)[1]

\* target_name_rust == card_name_str
name_matches(target_name_avm, card) ==
    to_utf8_lossy(target_name_avm) = card_name(card)

\* one pass of the loop body of get_camera for node number n
get_camera_iteration(dev, n, target) ==
    CASE dev.open = "ok" /\ dev.caps = "ok" ->
           IF dev.video_capture
           THEN IF target.some
                THEN IF name_matches(target.v, dev.card)
                     THEN [selected |-> Some(n), brk |-> TRUE]
                     ELSE [selected |-> None, brk |-> FALSE]
                ELSE [selected |-> Some(n), brk |-> TRUE]
           ELSE [selected |-> None, brk |-> FALSE]
      [] dev.open = "ok" /\ dev.caps = "err" -> [selected |-> None, brk |-> FALSE]
      [] dev.open = "NotFound" -> [selected |-> None, brk |-> TRUE]
      [] dev.open = "PermissionDenied" -> [selected |-> None, brk |-> FALSE]
      [] OTHER -> [selected |-> None, brk |-> FALSE]

is_supported_iteration_AnyNode(dev) ==
    CASE dev.open = "ok" /\ dev.caps = "ok" -> "return"
      [] dev.open = "ok" /\ dev.caps = "err" -> "next"
      [] dev.open = "NotFound" -> "break"
      [] OTHER -> "next"

\* one pass of the loop body of is_supported: "return" leaves the function
\* with true, "break" leaves the loop, "next" goes on to the next node
is_supported_iteration(dev) ==
    CASE dev.open = "ok" /\ dev.caps = "ok" ->
           IF dev.video_capture THEN "return" ELSE "next"
      [] dev.open = "ok" /\ dev.caps = "err" -> "next"
      [] dev.open = "NotFound" -> "break"
      [] dev.open = "PermissionDenied" -> "next"
      [] OTHER -> "next"

\* the Camera instance camera_class.construct hands back
VCamera == [t |-> "Object", class |-> "flash.media.Camera"]

\* the arguments of getCamera: none, "A", "B", "C" (the start of "CCC"),
\* "Z", an unpaired surrogate, an object whose toString raises
ArgInputs ==
    { <<>>, <<VString(<<65>>)>>, <<VString(<<66>>)>>, <<VString(<<67>>)>>,
      <<VString(<<90>>)>>, <<VString(<<55357>>)>>, <<VObject(TRUE)>> }

(***************************************************************************)
(* The bridge in use.  A parameter binding decodes a script value against  *)
(* the kind the shader declares (pc = "bind"); a readback encodes a tag    *)
(* (one just decoded, or one the shader produced: pc = "readback"); the    *)
(* encoded value may be bound again against the same kind.                 *)
(*   value        the script value handed to from_avm2_value               *)
(*   kind         the PixelBenderTypeOpcode of the parameter               *)
(*   first        the outcome of from_avm2_value(value, kind)              *)
(*   self         the tag handed to as_avm2_value                          *)
(*   tint_as_int  the flag handed to as_avm2_value                         *)
(*   out          the outcome of as_avm2_value(self, tint_as_int)          *)
(*   second       the outcome of from_avm2_value(out's value, kind)        *)
(***************************************************************************)
VARIABLES pc, value, kind, first, self, tint_as_int, out, second

(***************************************************************************)
(* A session of the Camera class: a script reads Camera.names, then        *)
(* Camera.isSupported, then calls Camera.getCamera, as the camera test's   *)
(* movie does.  Each call scans the device nodes; one pass of its loop is  *)
(* one step.                                                               *)
(*   devices        what each device node reports                          *)
(*   op             where the script is                                    *)
(*   probe_i        the loop variable i of the running scan                *)
(*   scanning       FALSE once the running scan has left its loop          *)
(*   opened         the indices handed to Device::new by the running call, *)
(*                  in order                                               *)
(*   linux_names    the names get_camera_names has pushed so far           *)
(*   camera_args    the arguments of the getCamera call                    *)
(*   name_arg, selected_device_index   the locals of get_camera            *)
(*   construct_result   how camera_class.construct ended: "none" while it  *)
(*                  has not been called, then "ok" or "err"                *)
(*   names_result, supported_result, camera_result   what the calls gave   *)
(***************************************************************************)
VARIABLES devices, op, probe_i, scanning, opened, linux_names, camera_args,
          name_arg, selected_device_index, names_result, supported_result,
          camera_result, construct_result

bridgeVars == <<pc, value, kind, first, self, tint_as_int, out, second>>

cameraVars ==
    <<devices, op, probe_i, scanning, opened, linux_names, camera_args,
      name_arg, selected_device_index, names_result, supported_result,
      camera_result, construct_result>>

vars == <<bridgeVars, cameraVars>>

\* no Camera session
CameraOff ==
    /\ devices = NoDevices
    /\ op = "off"
    /\ probe_i = 0
    /\ scanning = FALSE
    /\ opened = <<>>
    /\ linux_names = <<>>
    /\ camera_args = <<>>
    /\ name_arg = None
    /\ selected_device_index = None
    /\ names_result = NoResult
    /\ supported_result = NoResult
    /\ camera_result = NoResult
    /\ construct_result = "none"

\* no shader parameter in flight
BridgeOff ==
    /\ pc = "off"
    /\ value = NoValue
    /\ kind = "TString"
    /\ first = NoResult
    /\ self = NoTag
    /\ tint_as_int = FALSE
    /\ out = NoResult
    /\ second = NoResult

Init ==
    /\ first = NoResult
    /\ tint_as_int = FALSE
    /\ out = NoResult
    /\ second = NoResult
    /\ \/ /\ pc = "bind"
          /\ value \in ValueInputs
          /\ kind \in Kinds
          /\ self = NoTag
       \/ /\ pc = "readback"
          /\ value = NoValue
          /\ self \in TagInputs
          /\ kind = KindOf(self)
    /\ CameraOff

\* the parameter-binding caller: a panic unwinds it, an Ok hands it the tag
FromAvm2Value ==
    /\ pc = "bind"
    /\ first' = from_avm2_value(value, kind)
    /\ IF first'.r = "Ok"
       THEN pc' = "bound" /\ self' = first'.tag
       ELSE pc' = "aborted" /\ self' = self
    /\ UNCHANGED <<value, kind, tint_as_int, out, second>>
    /\ UNCHANGED cameraVars

\* the readback caller
AsAvm2Value ==
    /\ pc \in {"bound", "readback"}
    /\ \E flag \in BOOLEAN :
         /\ tint_as_int' = flag
         /\ out' = as_avm2_value(self, flag)
    /\ pc' = "encoded"
    /\ UNCHANGED <<value, kind, first, self, second>>
    /\ UNCHANGED cameraVars

\* the encoded value bound again
FromAvm2ValueAgain ==
    /\ pc = "encoded"
    /\ out.r = "Ok"
    /\ second' = from_avm2_value(out.val, kind)
    /\ pc' = IF second'.r = "Ok" THEN "rebound" ELSE "aborted"
    /\ UNCHANGED <<value, kind, first, self, tint_as_int, out>>
    /\ UNCHANGED cameraVars

Next == FromAvm2Value \/ AsAvm2Value \/ FromAvm2ValueAgain

Spec == Init /\ [][Next]_vars

InitCamera ==
    /\ BridgeOff
    /\ devices \in DeviceLayouts
    /\ op = "start"
    /\ probe_i = 0
    /\ scanning = FALSE
    /\ opened = <<>>
    /\ linux_names = <<>>
    /\ camera_args = <<>>
    /\ name_arg = None
    /\ selected_device_index = None
    /\ names_result = NoResult
    /\ supported_result = NoResult
    /\ camera_result = NoResult
    /\ construct_result = "none"

\* Camera.names is read: get_camera_names is entered
GetCameraNamesEnter ==
    /\ op = "start"
    /\ op' = "names"
    /\ probe_i' = 0
    /\ scanning' = TRUE
    /\ opened' = <<>>
    /\ linux_names' = <<>>
    /\ UNCHANGED <<devices, camera_args, name_arg, selected_device_index,
                   names_result, supported_result, camera_result, construct_result>>
    /\ UNCHANGED bridgeVars

\* one pass of `for i in 0..10` in get_camera_names
GetCameraNamesProbe ==
    /\ op = "names"
    /\ scanning
    /\ probe_i < MAX_PROBE
    /\ LET it == names_iteration(devices[probe_i], linux_names)
       IN /\ opened' = Append(opened, probe_i)
          /\ linux_names' = it.names
          /\ scanning' = ~it.brk
          /\ probe_i' = IF it.brk THEN probe_i ELSE probe_i + 1
    /\ UNCHANGED <<devices, op, camera_args, name_arg, selected_device_index,
                   names_result, supported_result, camera_result, construct_result>>
    /\ UNCHANGED bridgeVars

\* the loop is over: the names are wrapped in an Array and returned
GetCameraNamesReturn ==
    /\ op = "names"
    /\ ~scanning \/ probe_i = MAX_PROBE
    /\ names_result' =
         OkValue(VArray([j \in 1..Len(linux_names) |-> VString(linux_names[j])]))
    /\ op' = "names_done"
    /\ scanning' = FALSE
    /\ UNCHANGED <<devices, probe_i, opened, linux_names, camera_args, name_arg,
                   selected_device_index, supported_result, camera_result, construct_result>>
    /\ UNCHANGED bridgeVars

\* Camera.isSupported is read: is_supported is entered
IsSupportedEnter ==
    /\ op = "names_done"
    /\ op' = "isSupported"
    /\ probe_i' = 0
    /\ scanning' = TRUE
    /\ opened' = <<>>
    /\ UNCHANGED <<devices, linux_names, camera_args, name_arg,
                   selected_device_index, names_result, supported_result,
                   camera_result, construct_result>>
    /\ UNCHANGED bridgeVars

\* one pass of `for i in 0..10` in is_supported; a video-capture node
\* returns true from inside the loop
IsSupportedProbe ==
    /\ op = "isSupported"
    /\ scanning
    /\ probe_i < MAX_PROBE
    /\ LET it == is_supported_iteration(devices[probe_i])
       IN /\ opened' = Append(opened, probe_i)
          /\ scanning' = (it = "next")
          /\ probe_i' = IF it = "next" THEN probe_i + 1 ELSE probe_i
          /\ IF it = "return"
             THEN supported_result' = OkValue(VBool(TRUE)) /\ op' = "supported_done"
             ELSE UNCHANGED <<supported_result, op>>
    /\ UNCHANGED <<devices, linux_names, camera_args, name_arg,
                   selected_device_index, names_result, camera_result, construct_result>>
    /\ UNCHANGED bridgeVars

\* the loop is over without a return: Ok(false)
IsSupportedReturn ==
    /\ op = "isSupported"
    /\ ~scanning \/ probe_i = MAX_PROBE
    /\ supported_result' = OkValue(VBool(FALSE))
    /\ op' = "supported_done"
    /\ scanning' = FALSE
    /\ UNCHANGED <<devices, probe_i, opened, linux_names, camera_args, name_arg,
                   selected_device_index, names_result, camera_result, construct_result>>
    /\ UNCHANGED bridgeVars

\* Camera.getCamera is called: name_arg is the first argument coerced to a
\* string, None without an argument or when the coercion raises
GetCameraEnter ==
    /\ op = "supported_done"
    /\ \E args \in ArgInputs :
         /\ camera_args' = args
         /\ name_arg' = IF Len(args) = 0 THEN None
                        ELSE LET c == coerce_to_string(args[1])
                             IN IF c.ok THEN Some(c.s) ELSE None
    /\ selected_device_index' = None
    /\ op' = "getCamera"
    /\ probe_i' = 0
    /\ scanning' = TRUE
    /\ opened' = <<>>
    /\ UNCHANGED <<devices, linux_names, names_result, supported_result,
                   camera_result, construct_result>>
    /\ UNCHANGED bridgeVars

\* one pass of `for i in 0..10` in get_camera
GetCameraProbe ==
    /\ op = "getCamera"
    /\ scanning
    /\ probe_i < MAX_PROBE
    /\ LET it == get_camera_iteration(devices[probe_i], probe_i, name_arg)
       IN /\ opened' = Append(opened, probe_i)
          /\ selected_device_index' = it.selected
          /\ scanning' = ~it.brk
          /\ probe_i' = IF it.brk THEN probe_i ELSE probe_i + 1
    /\ UNCHANGED <<devices, op, linux_names, camera_args, name_arg,
                   names_result, supported_result, camera_result, construct_result>>
    /\ UNCHANGED bridgeVars

\* the loop is over: with a selected index the Camera class is constructed,
\* which may fail; every path returns Ok
GetCameraReturn ==
    /\ op = "getCamera"
    /\ ~scanning \/ probe_i = MAX_PROBE
    /\ IF selected_device_index.some
       THEN \E constructed \in BOOLEAN :
              /\ construct_result' = IF constructed THEN "ok" ELSE "err"
              /\ camera_result' = IF constructed THEN OkValue(VCamera)
                                  ELSE OkValue(VNull)
       ELSE /\ camera_result' = OkValue(VNull)
            /\ UNCHANGED construct_result
    /\ op' = "done"
    /\ scanning' = FALSE
    /\ UNCHANGED <<devices, probe_i, opened, linux_names, camera_args, name_arg,
                   selected_device_index, names_result, supported_result>>
    /\ UNCHANGED bridgeVars

NextCamera ==
    \/ GetCameraNamesEnter \/ GetCameraNamesProbe \/ GetCameraNamesReturn
    \/ IsSupportedEnter \/ IsSupportedProbe \/ IsSupportedReturn
    \/ GetCameraEnter \/ GetCameraProbe \/ GetCameraReturn

SpecCamera == InitCamera /\ [][NextCamera]_vars

(***************************************************************************)
(* Properties                                                              *)
(***************************************************************************)
NumericKinds == FloatKinds \cup IntKinds
ShapedKinds == VectorKinds \cup MatrixKinds

HoleFree(a) == \A i \in 1..Len(a) : a[i] # Hole

\* the host's coercion the kind asks for succeeds on the element
Coercible(x, k) ==
    x # Hole /\ (IF k \in FloatKinds THEN coerce_to_number(x).ok
                 ELSE coerce_to_i32(x).ok)

AllCoercible(a, k) == \A i \in 1..Len(a) : Coercible(a[i], k)

\* from_avm2_value(value, kind) has returned or panicked
Decoded == first # NoResult

\* C1: from_avm2_value hands its caller a tag or an Err for every value and
\* every kind, never a panic; an array element whose coercion fails is
\* reported as NonCoercibleElement.
C1_DecodeNeverAborts ==
    Decoded =>
      /\ first.r \in {"Ok", "Err"}
      /\ ( /\ value.t = "Array"
           /\ kind \in NumericKinds
           /\ Len(value.a) = Arity(kind)
           /\ HoleFree(value.a)
           /\ ~AllCoercible(value.a, kind) )
         => first = Err("NonCoercibleElement")

\* the call did not produce a tag, and an Err it returned is the one named
\* (that a failure is returned rather than a panic is C1's statement)
FailsWith(res, e) == res.r # "Ok" /\ (res.r = "Err" => res.msg = e)

\* C2: an array decodes against a vector or matrix kind only when its length
\* is the kind's arity; a well-formed array of any other length fails with
\* ShapeMismatch, and is never a tag built from a prefix.
C2_ArityExact ==
    (Decoded /\ value.t = "Array" /\ kind \in ShapedKinds) =>
      /\ first.r = "Ok" => Len(value.a) = Arity(kind)
      /\ ( /\ Len(value.a) # Arity(kind)
           /\ HoleFree(value.a)
           /\ AllCoercible(value.a, kind) )
         => FailsWith(first, "ShapeMismatch")

\* C3: an array with a hole at any index, also one past the kind's arity,
\* fails with HoleInSequence for every float- and int-family kind: the hole
\* is never skipped, defaulted or ignored.
C3_HoleRejected ==
    ( /\ Decoded
      /\ value.t = "Array"
      /\ kind \in NumericKinds
      /\ ~HoleFree(value.a) )
    => FailsWith(first, "HoleInSequence")

\* the value's category does not fit the kind
CategoryMismatch(v, k) ==
    \/ v.t = "String" /\ k \in NumericKinds
    \/ v.t = "Number" /\ k # "TFloat"
    \/ v.t = "Integer" /\ k # "TInt"
    \/ v.t = "Array" /\ k = "TString"

\* C4: a String against a numeric kind, a Number against a kind other than
\* TFloat, an Integer against a kind other than TInt and an Array against
\* TString all fail with UnsupportedInputKind.
C4_UnsupportedInputKind ==
    (Decoded /\ CategoryMismatch(value, kind))
    => FailsWith(first, "UnsupportedInputKind")

\* the narrowing the kind's family applies to one array element
NarrowedElement(x, k) ==
    IF k \in FloatKinds THEN F64ToF32(coerce_to_number(x).n)
    ELSE I32ToI16(coerce_to_i32(x).i)

\* an array that fits the kind: exact arity, no hole, every element coercible
ExactArray(v, k) ==
    /\ v.t = "Array"
    /\ k \in ShapedKinds
    /\ Len(v.a) = Arity(k)
    /\ HoleFree(v.a)
    /\ AllCoercible(v.a, k)

\* C5: a hole-free array of exactly the arity of a vector or matrix kind,
\* with coercible elements, decodes to the variant the kind names, whose
\* i-th element is the narrowing of the array's i-th element.
C5_ExactArrayDecodes ==
    (Decoded /\ ExactArray(value, kind)) =>
      /\ first.r = "Ok"
      /\ first.tag.k = kind
      /\ Len(first.tag.v) = Arity(kind)
      /\ \A i \in 1..Arity(kind) :
           first.tag.v[i] = NarrowedElement(value.a[i], kind)

\* a 3x3 matrix decoded from nine distinct-position elements, one of which
\* the narrowing changed
C5_Witness ==
    /\ pc = "bound"
    /\ kind = "TFloat3x3"
    /\ ExactArray(value, kind)
    /\ \E i \in 1..9 : first.tag.v[i] # coerce_to_number(value.a[i]).n
    /\ \E i, j \in 1..9 : first.tag.v[i] # first.tag.v[j]

\* C6: decode(Integer(n), TInt) succeeds for every i32 n and yields the
\* value of [-32768, 32767] congruent to n modulo 65536; 70000 gives 4464.
C6_IntegerWraps ==
    (Decoded /\ value.t = "Integer" /\ kind = "TInt") =>
      /\ first.r = "Ok"
      /\ first.tag.k = "TInt"
      /\ Len(first.tag.v) = 1
      /\ first.tag.v[1] \in -32768..32767
      /\ first.tag.v[1] % 65536 = value.i % 65536
      /\ value.i = 70000 => first.tag.v[1] = 4464

C6_Witness ==
    /\ pc = "bound"
    /\ value = VInteger(70000)
    /\ kind = "TInt"
    /\ first = Ok(Tag("TInt", <<4464>>))

\* as_avm2_value(self, tint_as_int) has returned
Encoded == out # NoResult

\* f is a finite float whose every set bit has a non-negative weight
IsIntegralValue(f) ==
    /\ f.c = "fin"
    /\ \A i \in 1..Len(f.bits) : f.bits[i] = 1 => f.e - i + 1 >= 0

\* f is an integer of [-2^31, 2^31 - 1]
InI32Range(f) ==
    /\ IsIntegralValue(f)
    /\ \/ f.bits = <<>>
       \/ f.e < 31
       \/ f.s = 1 /\ f.e = 31 /\ f.bits = <<1>>

\* float comparison: NaN equals nothing, the two zeros are equal
FloatEq(a, b) ==
    /\ a.c # "nan"
    /\ b.c # "nan"
    /\ (IsZero(a) /\ IsZero(b)) \/ a = b

RECURSIVE WordOf(_, _, _)
\* bits base .. base + n - 1 of the integer part of |f|, as a number
WordOf(f, base, n) ==
    IF n = 0 THEN 0 ELSE IntBit(f, base) + 2 * WordOf(f, base + 1, n - 1)

\* i is congruent to the integral float f modulo 2^32, compared as two
\* 16-bit halves of the two's complement of f
CongruentMod2p32(f, i) ==
    LET lo == WordOf(f, 0, 16)
        hi == WordOf(f, 16, 16)
        borrow == IF f.s = 1 /\ lo # 0 THEN 1 ELSE 0
        nlo == IF f.s = 0 THEN lo ELSE (65536 - lo) % 65536
        nhi == IF f.s = 0 THEN hi ELSE (131072 - hi - borrow) % 65536
    IN /\ i % 65536 = nlo
       /\ (i \div 65536) % 65536 = nhi

\* x is what the NumericNormalizer owes for the f32 f
NormalizedAs(f, x) ==
    IF IsIntegralValue(f)
    THEN /\ x.t = "Integer"
         /\ x.i \in I32_MIN..I32_MAX
         /\ CongruentMod2p32(f, x.i)
         /\ InI32Range(f) => FloatEq(I32ToF64(x.i), f)
    ELSE x = VNumber(f)

\* C7: cv turns an f32 with a zero fractional part into the Integer
\* congruent to it modulo 2^32 in the signed 32-bit range (the float itself
\* when it lies in that range) and every other f32 into a Number of the
\* same value; checked on every element as_avm2_value emits for a
\* float-family tag.
C7_Normalizer ==
    (Encoded /\ self.k \in FloatKinds) =>
      /\ out.r = "Ok"
      /\ out.val.t = "Array"
      /\ Len(out.val.a) = Len(self.v)
      /\ \A i \in 1..Len(self.v) : NormalizedAs(self.v[i], out.val.a[i])

\* 2.0 -> Integer(2), 1.5 -> Number(1.5), 2^31 wraps to Integer(-2^31)
C7_Witness ==
    /\ pc = "encoded"
    /\ self = Tag("TFloat3", <<Fin(0, <<1>>, 1), Fin(0, <<1, 1>>, 0),
                               Fin(0, <<1>>, 31)>>)
    /\ out.val.a = <<VInteger(2), VNumber(Fin(0, <<1, 1>>, 0)),
                     VInteger(I32_MIN)>>

C9_VectorEncoding ==
    (Encoded /\ self.k \in ShapedKinds) =>
      /\ out.r = "Ok"
      /\ out.val.t = "Array"
      /\ Len(out.val.a) = Arity(self.k)
      /\ HoleFree(out.val.a)
      /\ \A i \in 1..Arity(self.k) :
           IF self.k \in FloatKinds
           THEN NormalizedAs(self.v[i], out.val.a[i])
           ELSE out.val.a[i] = VInteger(self.v[i])

\* a 4x4 matrix read back as sixteen elements, Integers and Numbers mixed
C9_Witness ==
    /\ pc = "encoded"
    /\ self.k = "TFloat4x4"
    /\ Len(out.val.a) = 16
    /\ \E i, j \in 1..16 : out.val.a[i].t = "Integer" /\ out.val.a[j].t = "Number"

FloatVectorKinds == {"TFloat2", "TFloat3", "TFloat4"}

\* a Number with a non-zero fractional part
FractionalNumber(x) ==
    x.t = "Number" /\ x.n.c = "fin" /\ ~IsIntegralValue(x.n)

TagEq(t1, t2) ==
    /\ t1.k = t2.k
    /\ Len(t1.v) = Len(t2.v)
    /\ \A i \in 1..Len(t1.v) : FloatEq(t1.v[i], t2.v[i])

\* decode, encode with the flag false, decode again, from an array of
\* fractional Numbers of the arity of a float vector kind
RoundTripCase ==
    /\ second # NoResult
    /\ value.t = "Array"
    /\ kind \in FloatVectorKinds
    /\ Len(value.a) = Arity(kind)
    /\ \A i \in 1..Len(value.a) : FractionalNumber(value.a[i])
    /\ ~tint_as_int

\* C10 as stated: the round trip succeeds and gives the first decode again
\* for every such array.
C10_RoundTripAsStated ==
    RoundTripCase => second.r = "Ok" /\ TagEq(second.tag, first.tag)

\* C10: the round trip succeeds and gives the first decode again when,
\* besides, every component narrows to an f32 within the signed 32-bit
\* range.
C10_RoundTrip ==
    ( /\ RoundTripCase
      /\ \A i \in 1..Len(value.a) :
           LET f == F64ToF32(value.a[i].n)
           IN IsIntegralValue(f) => InI32Range(f) )
    => second.r = "Ok" /\ TagEq(second.tag, first.tag)

\* a TFloat4 round trip in which a narrowing changed a component and the
\* encoder emitted a Number
C10_Witness ==
    /\ pc = "rebound"
    /\ RoundTripCase
    /\ kind = "TFloat4"
    /\ \A i \in 1..4 : InI32Range(F64ToF32(value.a[i].n))
                         \/ ~IsIntegralValue(F64ToF32(value.a[i].n))
    /\ \E i \in 1..4 : first.tag.v[i] # value.a[i].n
    /\ \E i \in 1..4 : out.val.a[i].t = "Number"

RECURSIVE SameText(_, _)
\* the code units w and the scalar values c spell the same text
SameText(w, c) ==
    IF w = <<>> THEN c = <<>>
    ELSE /\ c # <<>>
         /\ IF c[1] < 65536
            THEN /\ ~IsHighSurrogate(w[1])
                 /\ ~IsLowSurrogate(w[1])
                 /\ w[1] = c[1]
                 /\ SameText(Tail(w), Tail(c))
            ELSE /\ Len(w) >= 2
                 /\ IsHighSurrogate(w[1])
                 /\ IsLowSurrogate(w[2])
                 /\ 65536 + (w[1] - 55296) * 1024 + (w[2] - 56320) = c[1]
                 /\ SameText(SubSeq(w, 3, Len(w)), Tail(c))

RECURSIVE WellFormedUtf16(_)
\* every surrogate of w is half of a pair
WellFormedUtf16(w) ==
    IF w = <<>> THEN TRUE
    ELSE IF IsHighSurrogate(w[1])
         THEN Len(w) >= 2 /\ IsLowSurrogate(w[2])
              /\ WellFormedUtf16(SubSeq(w, 3, Len(w)))
         ELSE ~IsLowSurrogate(w[1]) /\ WellFormedUtf16(Tail(w))

\* a String decoded against TString is the TString of the same text
DecodesToSameText ==
    /\ first.r = "Ok"
    /\ first.tag.k = "TString"
    /\ first.tag.v = <<>>
    /\ SameText(value.s, first.tag.s)

\* a TString encodes, under either flag, to the bare String of the same text
EncodesToSameText ==
    (Encoded /\ self.k = "TString") =>
      /\ out.r = "Ok"
      /\ out.val.t = "String"
      /\ SameText(out.val.s, self.s)

\* the encoded TString decoded against TString is the TString again
TextRoundTrip ==
    (second # NoResult /\ self.k = "TString" /\ kind = "TString")
    => second = Ok(self)

StopPoint ==
    IF \E j \in 0..(MAX_PROBE - 1) : devices[j].open = "NotFound"
    THEN CHOOSE j \in 0..(MAX_PROBE - 1) :
           /\ devices[j].open = "NotFound"
           /\ \A m \in 0..(j - 1) : devices[m].open # "NotFound"
    ELSE MAX_PROBE

IsCapture(j) ==
    devices[j].open = "ok" /\ devices[j].caps = "ok" /\ devices[j].video_capture

DisplayName(j) == new_utf8(card_name(devices[j].card))

RECURSIVE NamesBelow(_)
\* the display names of the video-capture nodes below index n, ascending
NamesBelow(n) ==
    IF n = 0 THEN <<>>
    ELSE IF IsCapture(n - 1)
         THEN Append(NamesBelow(n - 1), VString(DisplayName(n - 1)))
         ELSE NamesBelow(n - 1)

\* the log holds 0, 1, 2, ... and nothing follows a not-found node
ScanInOrder ==
    /\ Len(opened) <= MAX_PROBE
    /\ \A k \in 1..Len(opened) :
         /\ opened[k] = k - 1
         /\ \A j \in 1..(k - 1) : devices[opened[j]].open # "NotFound"

\* the finished scan went up to the stop point, past every other failure
ScanComplete ==
    Len(opened) = IF StopPoint < MAX_PROBE THEN StopPoint + 1 ELSE MAX_PROBE

\* C12: get_camera_names opens the indices in ascending order from 0, at
\* most MAX_PROBE of them and none after the first not-found; it skips any
\* other open error and any capability-query failure and goes on; its list
\* is exactly the display names of the video-capture nodes before the stop,
\* in ascending index order.
C12_NamesScan ==
    (op \in {"names", "names_done"}) =>
        /\ ScanInOrder
        /\ (op = "names_done") =>
             /\ ScanComplete
             /\ names_result = OkValue(VArray(NamesBelow(StopPoint)))

\* a denied node is skipped, the next one is listed, the scan stops at the
\* not-found node and leaves the camera behind it unopened
C12_Witness ==
    /\ op = "names_done"
    /\ devices[0] = PermissionDenied
    /\ devices[1] = OpenedNode(TRUE, CardB)
    /\ devices[2] = NotFound
    /\ devices[3] = OpenedNode(TRUE, CardA)
    /\ opened = <<0, 1, 2>>
    /\ names_result = OkValue(VArray(<<VString(<<66>>)>>))

\* Camera.names came back with at least one name
NamesNonEmpty == names_result.r = "Ok" /\ names_result.val.a # <<>>

\* Camera.isSupported is true exactly when Camera.names is non-empty
SupportedAgrees ==
    (supported_result # NoResult) => supported_result = OkValue(VBool(NamesNonEmpty))

\* getCamera was called with no argument and has returned
CalledWithoutArgument == op = "done" /\ camera_args = <<>>

CalledWithName(n) == op = "done" /\ camera_args = <<VString(n)>>

\* the texts getCamera is called with
NameArgs == {a[1].s : a \in {b \in ArgInputs : Len(b) = 1 /\ b[1].t = "String"}}

\* the video-capture nodes the scan can reach
Reached == {j \in 0..(StopPoint - 1) : IsCapture(j)}

Lowest(S) == CHOOSE j \in S : \A m \in S : j <= m

\* the name with each unpaired surrogate replaced by U+FFFD
Lossy(n) == new_utf8(to_utf8_lossy(n))

\* what getCamera owes a caller when M is the set of nodes the name stands
\* for: an Ok in every case; a Camera only for the lowest node of M, with
\* the scan ended there; null when M is empty or construction failed
GetCameraSelects(M) ==
    /\ camera_result.r = "Ok"
    /\ (camera_result.val # VNull) =>
         /\ M # {}
         /\ selected_device_index = Some(Lowest(M))
         /\ opened = [k \in 1..(Lowest(M) + 1) |-> k - 1]
         /\ camera_result.val = VCamera
    /\ (M = {}) => camera_result.val = VNull
    /\ (construct_result = "err") => camera_result.val = VNull

\* getCamera returns, whatever it is called with, and returns null when the
\* scan reaches no video-capture node
GetCameraNeverRaises ==
    (op = "done") =>
        /\ camera_result.r = "Ok"
        /\ (Reached = {}) => camera_result.val = VNull

\* C14 as stated: getCamera never raises; called with a display name it
\* returns a non-null Camera only if that exact name is the name of a
\* video-capture node the scan reaches (the lowest such index, the scan
\* ending there), and null when there is no device, no reached device has
\* the name, the scan stops at a not-found index before a match, or the
\* construction of the Camera fails.
C14_GetCameraAsStated ==
    /\ GetCameraNeverRaises
    /\ \A n \in NameArgs :
         CalledWithName(n) =>
             GetCameraSelects({j \in Reached : DisplayName(j) = n})

\* C14, amended: the same, the name being compared after each unpaired
\* surrogate in it is replaced by U+FFFD.
C14_GetCamera ==
    /\ GetCameraNeverRaises
    /\ \A n \in NameArgs :
         CalledWithName(n) =>
             GetCameraSelects({j \in Reached : DisplayName(j) = Lossy(n)})

\* "B" is asked for: node 0 is another camera, nodes 1 and 2 are both "B"
C14_Witness ==
    /\ CalledWithName(<<66>>)
    /\ devices[0] = OpenedNode(TRUE, CardA)
    /\ devices[1] = OpenedNode(TRUE, CardB)
    /\ devices[2] = OpenedNode(TRUE, CardB)
    /\ selected_device_index = Some(1)
    /\ opened = <<0, 1>>
    /\ construct_result = "ok"
    /\ camera_result = OkValue(VCamera)

\* a tag was encoded and the encoding decoded against the tag's own kind
ReadBack == second # NoResult /\ kind = self.k

\* C15: a float-family tag of any of the seven kinds whose components are
\* all whole numbers within the signed 32-bit range, encoded with the flag
\* false and decoded against its kind, gives the tag back (floats compared
\* as floats); an int-family tag, encoded under either flag and decoded
\* against its kind, gives the tag back.
C15_IntegralRoundTrip ==
    /\ ( /\ ReadBack
         /\ self.k \in FloatKinds
         /\ \A i \in 1..Len(self.v) : InI32Range(self.v[i])
         /\ ~tint_as_int )
       => second.r = "Ok" /\ TagEq(second.tag, self)
    /\ (ReadBack /\ self.k \in IntKinds) => second = Ok(self)

\* a 4x4 matrix of whole numbers, -2^31 and -0 among them, read back as
\* sixteen Integers and bound again
C15_Witness ==
    /\ pc = "rebound"
    /\ ReadBack
    /\ self.k = "TFloat4x4"
    /\ ~tint_as_int
    /\ \A i \in 1..16 : InI32Range(self.v[i]) /\ out.val.a[i].t = "Integer"
    /\ \E i \in 1..16 : self.v[i] = Fin(1, <<1>>, 31)
    /\ \E i \in 1..16 : self.v[i] = Zero(1) /\ second.tag.v[i] = Zero(0)

=============================================================================
